---- MODULE Spec2Model ----
(***************************************************************************)
(* Model of instagram_unfollower/storage.py: the two tables, the           *)
(* session_scope transaction and the nine operations of UnfollowersStorage.*)
(* A call runs as the statements of its handler inside session_scope:      *)
(* Call (Session()), the body, Commit or Fail/Rollback, Close.             *)
(* Spec runs the calls one at a time; SpecUnfollowers and SpecUsers         *)
(* interleave the statements of the calls of several callers, on table     *)
(* unfollowers and on table telegram_users; SpecStores constructs further  *)
(* stores between the calls of one caller.                                 *)
(***************************************************************************)
EXTENDS Integers, FiniteSets

\* ---------------------------------------------------------------- bounds
MaxUser == 2
MaxAccount == 2
MaxId == 2
MaxProc == 2
MaxCalls == 3
MaxStore == 2
MaxUrl == 2

Users == 1..MaxUser
Accounts == 1..MaxAccount
Ids == 1..MaxId
Procs == 1..MaxProc
Stores == 1..MaxStore
Urls == 1..MaxUrl

\* the db_url of a store that is not constructed
NoUrl == 0

\* NULL of a nullable Integer column / Optional[int], and of language
NoId == 0
NoLang == "none"
Langs == {"en"}

\* create_engine(db_url): the dialect decides how writers exclude each other.
\* "sqlite": one writer at a time for the whole database file, from its first
\* write statement to its commit or rollback; a SELECT takes no lock.
\* "mvcc": a row-versioning engine at READ COMMITTED; writers of different rows
\* do not exclude each other, and a DELETE removes at commit the rows it found
\* that are still there.
Dialects == {"sqlite", "mvcc"}

\* the operations on table unfollowers, and those on table telegram_users
UnfollowerOps == {"get_known_unfollowers", "update_known_unfollowers"}
UserOps == {"get_instagram_id", "update_instagram_id", "start_notifying",
            "stop_notifying", "get_notified_telegram_ids", "get_language",
            "set_language"}
Ops == UnfollowerOps \cup UserOps

VARIABLES
    dialect,          \* the engine Session is bound to
    bind,             \* the db_url of the engine the module's Session is bound to
    db_url,           \* the db_url each UnfollowersStorage was constructed with
    db,               \* the two tables of the databases Session is not bound to
    self,             \* the UnfollowersStorage each process made its call on
    unfollowers,      \* committed rows of table unfollowers, database of bind
    telegram_users,   \* committed rows of table telegram_users, database of bind
    lock,             \* sqlite: the process holding the write lock, 0 if none
    sess,             \* processes whose session is open (not yet closed)
    pc,               \* position of each process inside its call
    op, arg,          \* the operation called and its arguments
    ret,              \* return value / outcome of the call
    del, ins,         \* rows deleted / inserted by the open transaction
    obj,              \* the TelegramUser object the session holds (new or dirty)
    pre,              \* history: both tables when the call started
    again,            \* history: the call repeats the caller's previous successful call
    dirtied,          \* history: another process committed a write since the call started
    during,           \* history: the processes inside a transaction when the call read table unfollowers
    calls,            \* number of calls made so far
    lastS,            \* history: set passed to the last successful update_known_unfollowers
    lastToggle,       \* history: the last toggle of the user that returned True
    clash             \* history: the pairs two transactions have replaced at the same time

vars == <<dialect, bind, db_url, db, self, unfollowers, telegram_users, lock,
          sess, pc, op, arg, ret, del, ins, obj, pre, again, dirtied, during,
          calls, lastS, lastToggle, clash>>

\* ---------------------------------------------------------------- rows
\* Unfollower(id, instagram_author_id, telegram_author_id, instagram_unfollower_id)
Unfollower(i, tg, ig, x) ==
    [id |-> i, telegram_author_id |-> tg, instagram_author_id |-> ig,
     instagram_unfollower_id |-> x]

\* TelegramUser(id, telegram_id, instagram_id, is_notified=False, language=None)
TelegramUser(i, tg, ig, n, l) ==
    [id |-> i, telegram_id |-> tg, instagram_id |-> ig, is_notified |-> n,
     language |-> l]

NoArg == [tg |-> 0, ig |-> NoId, ids |-> {}, lang |-> NoLang]
NoRet == [status |-> "none", set |-> {}, bool |-> FALSE, int |-> NoId, str |-> NoLang]
NoObj == [kind |-> "none", id |-> 0, tg |-> 0, col |-> "none",
          instagram_id |-> NoId, is_notified |-> FALSE, language |-> NoLang]

\* the arguments a caller may pass to each operation
Args(o) ==
    CASE o = "update_known_unfollowers" ->
           {[tg |-> u, ig |-> a, ids |-> S, lang |-> NoLang] :
                u \in Users, a \in Accounts, S \in SUBSET Ids}
      [] o = "update_instagram_id" ->
           {[tg |-> u, ig |-> a, ids |-> {}, lang |-> NoLang] : u \in Users, a \in Accounts}
      [] o = "set_language" ->
           {[tg |-> u, ig |-> NoId, ids |-> {}, lang |-> l] :
                u \in Users, l \in Langs \cup {NoLang}}
      [] o = "get_notified_telegram_ids" -> {NoArg}
      [] OTHER ->
           {[tg |-> u, ig |-> NoId, ids |-> {}, lang |-> NoLang] : u \in Users}

\* ---------------------------------------------------------------- queries
\* session.query(Unfollower).filter_by(telegram_author_id=tg)
ByTelegram(t, tg) == {r \in t : r.telegram_author_id = tg}

\* session.query(Unfollower).filter_by(telegram_author_id=tg, instagram_author_id=ig)
ByPair(t, tg, ig) ==
    {r \in t : r.telegram_author_id = tg /\ r.instagram_author_id = ig}

\* {unfollower.instagram_unfollower_id for unfollower in unfollowers}
KnownIds(t, tg) == {r.instagram_unfollower_id : r \in ByTelegram(t, tg)}

\* session.query(TelegramUser).filter_by(telegram_id=tg)
UserRows(t, tg) == {r \in t : r.telegram_id = tg}

\* {user.telegram_id for user in ...filter_by(is_notified=True).all()}
Notified(t) == {r.telegram_id : r \in {x \in t : x.is_notified}}

\* primary keys in use or referred to by an open transaction: a new row's
\* autoincrement id is none of these
UsedIds == {r.id : r \in unfollowers}
           \cup UNION {{r.id : r \in del[p]} : p \in Procs}
           \cup UNION {{r.id : r \in ins[p]} : p \in Procs}

\* the n-th smallest primary key that is free
NthFree(n, used, count) ==
    LET cand == (1..(Cardinality(used) + count)) \ used
    IN  CHOOSE f \in cand : Cardinality({g \in cand : g <= f}) = n

\* [Unfollower(telegram_author_id=tg, instagram_author_id=ig,
\*             instagram_unfollower_id=x) for x in unfollower_ids], with their keys
NewUnfollowers(tg, ig, S) ==
    {Unfollower(NthFree(Cardinality({y \in S : y <= x}), UsedIds, Cardinality(S)),
                tg, ig, x) : x \in S}

\* ---------------------------------------------------------------- state
\* the store constructed first and its db_url; two empty tables
FirstStore == CHOOSE s \in Stores : \A r \in Stores : s <= r
FirstUrl == CHOOSE x \in Urls : \A y \in Urls : x <= y
NoTables == [u |-> {}, t |-> {}]

\* UnfollowersStorage(db_url): create_all on the engine, Session bound to it
Init ==
    /\ dialect \in Dialects
    /\ bind = FirstUrl
    /\ db_url = [s \in Stores |-> IF s = FirstStore THEN FirstUrl ELSE NoUrl]
    /\ db = [x \in Urls |-> NoTables]
    /\ self = [p \in Procs |-> FirstStore]
    /\ unfollowers = {}
    /\ telegram_users = {}
    /\ lock = 0
    /\ sess = {}
    /\ pc = [p \in Procs |-> "idle"]
    /\ op = [p \in Procs |-> "none"]
    /\ arg = [p \in Procs |-> NoArg]
    /\ ret = [p \in Procs |-> NoRet]
    /\ del = [p \in Procs |-> {}]
    /\ ins = [p \in Procs |-> {}]
    /\ obj = [p \in Procs |-> NoObj]
    /\ pre = [p \in Procs |-> [u |-> {}, t |-> {}]]
    /\ again = [p \in Procs |-> FALSE]
    /\ dirtied = [p \in Procs |-> FALSE]
    /\ during = [p \in Procs |-> {}]
    /\ calls = 0
    /\ lastS = [u \in Users |-> [a \in Accounts |-> {}]]
    /\ lastToggle = [u \in Users |-> "none"]
    /\ clash = {}

tables == <<unfollowers, telegram_users>>
engine == <<dialect, bind, db_url, db>>
txn == <<del, ins, obj, lock>>
ghosts == <<lastS, lastToggle, dirtied>>
hist == <<pre, again, during, calls, clash>>

\* ---------------------------------------------------------------- session_scope
\* a caller invokes operation o of store s with arguments a: `session = Session()`,
\* a session of the engine Session is bound to, then the body of the with block
\* runs
CallVia(p, O, s) ==
    /\ pc[p] \in {"idle", "done"}
    /\ db_url[s] # NoUrl
    /\ self' = [self EXCEPT ![p] = s]
    /\ calls < MaxCalls
    /\ \E o \in O : \E a \in Args(o) :
          /\ op' = [op EXCEPT ![p] = o]
          /\ arg' = [arg EXCEPT ![p] = a]
          /\ again' = [again EXCEPT ![p] =
                          pc[p] = "done" /\ ret[p].status = "ok" /\ op[p] = o /\ arg[p] = a]
    /\ pc' = [pc EXCEPT ![p] = "body"]
    /\ sess' = sess \cup {p}
    /\ ret' = [ret EXCEPT ![p] = NoRet]
    /\ pre' = [pre EXCEPT ![p] = [u |-> unfollowers, t |-> telegram_users]]
    /\ dirtied' = [dirtied EXCEPT ![p] = FALSE]
    /\ during' = [during EXCEPT ![p] = {}]
    /\ calls' = calls + 1
    /\ UNCHANGED <<engine, tables, txn, lastS, lastToggle, clash>>

\* a call on the store constructed first
CallOf(p, O) == CallVia(p, O, FirstStore)

\* UnfollowersStorage(x) is constructed as store s, no call being in progress:
\* create_engine(x), create_all, and Session.configure(bind=engine) binds the
\* module's one Session to the new engine. From here on unfollowers and
\* telegram_users are the tables of the database at x.
Construct(s, x) ==
    /\ sess = {}
    /\ db_url[s] = NoUrl
    /\ db_url' = [db_url EXCEPT ![s] = x]
    /\ bind' = x
    /\ IF x = bind
       THEN UNCHANGED <<tables, db>>
       ELSE /\ unfollowers' = db[x].u
            /\ telegram_users' = db[x].t
            /\ db' = [db EXCEPT ![bind] = [u |-> unfollowers, t |-> telegram_users],
                                ![x] = NoTables]
    /\ UNCHANGED <<dialect, self, txn, sess, pc, op, arg, ret, hist, ghosts>>

\* a call of any of the nine operations
Call(p) == CallOf(p, Ops)

\* the statement of the body ran: what it returns and where the call goes on
Ran(p, r, next) ==
    /\ ret' = [ret EXCEPT ![p] = r]
    /\ pc' = [pc EXCEPT ![p] = next]
    /\ UNCHANGED <<engine, self, tables, sess, op, arg, pre, again, calls, ghosts>>

\* ---------------------------------------------------------------- unfollowers
\* mutant: get_known_unfollowers filters by instagram_author_id
GetKnownUnfollowersByAccount(p) ==
    /\ pc[p] = "body" /\ op[p] = "get_known_unfollowers"
    /\ Ran(p, [NoRet EXCEPT !.set =
                 {r.instagram_unfollower_id :
                     r \in {x \in unfollowers : x.instagram_author_id = arg[p].tg}}],
           "commit")
    /\ during' = [during EXCEPT ![p] = {q \in Procs \ {p} : pc[q] \in {"insert", "commit"}}]
    /\ UNCHANGED <<txn, clash>>

\* get_known_unfollowers: query ... .all(), the set of instagram_unfollower_id
GetKnownUnfollowers(p) ==
    /\ pc[p] = "body" /\ op[p] = "get_known_unfollowers"
    /\ Ran(p, [NoRet EXCEPT !.set = KnownIds(unfollowers, arg[p].tg)], "commit")
    /\ during' = [during EXCEPT ![p] = {q \in Procs \ {p} : pc[q] \in {"insert", "commit"}}]
    /\ UNCHANGED <<txn, clash>>

\* the pairs replaced by two transactions at once, when process p starts the
\* transaction of its update_known_unfollowers: the pair of p joins them if the
\* transaction of another process on the same pair is open
Clashing(p) ==
    IF \E q \in Procs \ {p} :
          /\ pc[q] \in {"insert", "commit"} /\ op[q] = "update_known_unfollowers"
          /\ arg[q].tg = arg[p].tg /\ arg[q].ig = arg[p].ig
    THEN clash \cup {<<arg[p].tg, arg[p].ig>>}
    ELSE clash

\* mutant: the DELETE is left out, the new rows are added to the old ones
DeleteKnownSkipped(p) ==
    /\ pc[p] = "body" /\ op[p] = "update_known_unfollowers"
    /\ Ran(p, NoRet, "insert")
    /\ UNCHANGED <<txn, during, clash>>

\* mutant: the DELETE filters by telegram_author_id alone
DeleteKnownOfUser(p) ==
    /\ pc[p] = "body" /\ op[p] = "update_known_unfollowers"
    /\ IF dialect = "sqlite"
       THEN lock \in {0, p} /\ lock' = p
       ELSE lock' = lock
    /\ del' = [del EXCEPT ![p] = ByTelegram(unfollowers, arg[p].tg)]
    /\ clash' = Clashing(p)
    /\ Ran(p, NoRet, "insert")
    /\ UNCHANGED <<ins, obj, during>>

\* mutant: the DELETE is committed on its own, before the inserts
DeleteKnownAutocommit(p) ==
    /\ pc[p] = "body" /\ op[p] = "update_known_unfollowers"
    /\ unfollowers' = unfollowers \ ByPair(unfollowers, arg[p].tg, arg[p].ig)
    /\ pc' = [pc EXCEPT ![p] = "insert"]
    /\ UNCHANGED <<engine, self, telegram_users, txn, sess, op, arg, ret, hist, ghosts>>

\* update_known_unfollowers, first statement: query(...).filter_by(...).delete().
\* The DELETE is emitted inside the session's transaction: the rows stay in the
\* committed table until the commit. Under sqlite it takes the write lock.
DeleteKnown(p) ==
    /\ pc[p] = "body" /\ op[p] = "update_known_unfollowers"
    /\ IF dialect = "sqlite"
       THEN lock \in {0, p} /\ lock' = p
       ELSE lock' = lock
    /\ del' = [del EXCEPT ![p] = ByPair(unfollowers, arg[p].tg, arg[p].ig)]
    /\ clash' = Clashing(p)
    /\ Ran(p, NoRet, "insert")
    /\ UNCHANGED <<ins, obj, during>>

\* update_known_unfollowers, second statement: session.bulk_save_objects(unfollowers)
BulkSave(p) ==
    /\ pc[p] = "insert" /\ op[p] = "update_known_unfollowers"
    /\ ins' = [ins EXCEPT ![p] = NewUnfollowers(arg[p].tg, arg[p].ig, arg[p].ids)]
    /\ Ran(p, NoRet, "commit")
    /\ UNCHANGED <<del, obj, lock, during, clash>>

\* ---------------------------------------------------------------- telegram_users
\* mutant: is_notified defaults to True
NewUserNotified(tg, ig, l) ==
    [NoObj EXCEPT !.kind = "new", !.tg = tg, !.instagram_id = ig, !.language = l,
                  !.is_notified = TRUE]

\* TelegramUser(telegram_id=tg, ...) after session.add: a pending object
NewUser(tg, ig, l) ==
    [NoObj EXCEPT !.kind = "new", !.tg = tg, !.instagram_id = ig, !.language = l]

\* an attribute of the loaded row r was assigned: a dirty object
Dirty(r, c) == [NoObj EXCEPT !.kind = "dirty", !.id = r.id, !.tg = r.telegram_id, !.col = c]

\* mutant: get_instagram_id creates the row it does not find
GetInstagramIdCreates(p) ==
    /\ pc[p] = "body" /\ op[p] = "get_instagram_id"
    /\ LET rows == UserRows(telegram_users, arg[p].tg)
       IN  IF rows = {}
           THEN /\ obj' = [obj EXCEPT ![p] = NewUser(arg[p].tg, NoId, NoLang)]
                /\ Ran(p, NoRet, "commit")
           ELSE /\ obj' = obj
                /\ \E r \in rows : Ran(p, [NoRet EXCEPT !.int = r.instagram_id], "commit")
    /\ UNCHANGED <<del, ins, lock, during, clash>>

\* get_instagram_id: .first().instagram_id, None on AttributeError
GetInstagramId(p) ==
    /\ pc[p] = "body" /\ op[p] = "get_instagram_id"
    /\ LET rows == UserRows(telegram_users, arg[p].tg)
       IN  IF rows = {}
           THEN Ran(p, NoRet, "commit")
           ELSE \E r \in rows : Ran(p, [NoRet EXCEPT !.int = r.instagram_id], "commit")
    /\ UNCHANGED <<txn, during, clash>>

\* mutant: update_instagram_id adds a TelegramUser without looking for the row
UpdateInstagramIdAlwaysAdds(p) ==
    /\ pc[p] = "body" /\ op[p] = "update_instagram_id"
    /\ obj' = [obj EXCEPT ![p] = NewUser(arg[p].tg, arg[p].ig, NoLang)]
    /\ Ran(p, NoRet, "commit")
    /\ UNCHANGED <<del, ins, lock, during, clash>>

\* update_instagram_id: .first(); add a new TelegramUser or assign instagram_id
UpdateInstagramId(p) ==
    /\ pc[p] = "body" /\ op[p] = "update_instagram_id"
    /\ LET rows == UserRows(telegram_users, arg[p].tg)
       IN  IF rows = {}
           THEN obj' = [obj EXCEPT ![p] = NewUser(arg[p].tg, arg[p].ig, NoLang)]
           ELSE \E r \in rows :
                   obj' = [obj EXCEPT ![p] =
                              [Dirty(r, "instagram_id") EXCEPT !.instagram_id = arg[p].ig]]
    /\ Ran(p, NoRet, "commit")
    /\ UNCHANGED <<del, ins, lock, during, clash>>

\* mutant: the toggles create the row when there is none, as the setters do
SetNotifiedUpserts(p, flag) ==
    LET rows == UserRows(telegram_users, arg[p].tg)
    IN  /\ IF rows = {}
           THEN obj' = [obj EXCEPT ![p] =
                           [NewUser(arg[p].tg, NoId, NoLang) EXCEPT !.is_notified = flag]]
           ELSE \E r \in rows :
                   obj' = [obj EXCEPT ![p] =
                              [Dirty(r, "is_notified") EXCEPT !.is_notified = flag]]
        /\ Ran(p, [NoRet EXCEPT !.bool = TRUE], "commit")

\* the body shared by start_notifying (flag True) and stop_notifying (flag False)
SetNotified(p, flag) ==
    LET rows == UserRows(telegram_users, arg[p].tg)
    IN  IF rows = {}
        THEN /\ obj' = obj
             /\ Ran(p, [NoRet EXCEPT !.bool = FALSE], "commit")
        ELSE /\ \E r \in rows :
                   obj' = [obj EXCEPT ![p] =
                              [Dirty(r, "is_notified") EXCEPT !.is_notified = flag]]
             /\ Ran(p, [NoRet EXCEPT !.bool = TRUE], "commit")

StartNotifying(p) ==
    /\ pc[p] = "body" /\ op[p] = "start_notifying"
    /\ SetNotified(p, TRUE)
    /\ UNCHANGED <<del, ins, lock, during, clash>>

StopNotifying(p) ==
    /\ pc[p] = "body" /\ op[p] = "stop_notifying"
    /\ SetNotified(p, FALSE)
    /\ UNCHANGED <<del, ins, lock, during, clash>>

\* get_notified_telegram_ids
GetNotifiedTelegramIds(p) ==
    /\ pc[p] = "body" /\ op[p] = "get_notified_telegram_ids"
    /\ Ran(p, [NoRet EXCEPT !.set = Notified(telegram_users)], "commit")
    /\ UNCHANGED <<txn, during, clash>>

\* get_language
GetLanguage(p) ==
    /\ pc[p] = "body" /\ op[p] = "get_language"
    /\ LET rows == UserRows(telegram_users, arg[p].tg)
       IN  IF rows = {}
           THEN Ran(p, NoRet, "commit")
           ELSE \E r \in rows : Ran(p, [NoRet EXCEPT !.str = r.language], "commit")
    /\ UNCHANGED <<txn, during, clash>>

\* mutant: set_language assigns the language only when it is not None
SetLanguageUnlessNone(p) ==
    /\ pc[p] = "body" /\ op[p] = "set_language"
    /\ LET rows == UserRows(telegram_users, arg[p].tg)
       IN  IF rows = {}
           THEN obj' = [obj EXCEPT ![p] = NewUser(arg[p].tg, NoId, arg[p].lang)]
           ELSE IF arg[p].lang = NoLang
                THEN obj' = obj
                ELSE \E r \in rows :
                        obj' = [obj EXCEPT ![p] =
                                   [Dirty(r, "language") EXCEPT !.language = arg[p].lang]]
    /\ Ran(p, NoRet, "commit")
    /\ UNCHANGED <<del, ins, lock, during, clash>>

\* set_language: .first(); add a new TelegramUser if None; user.language = language
SetLanguage(p) ==
    /\ pc[p] = "body" /\ op[p] = "set_language"
    /\ LET rows == UserRows(telegram_users, arg[p].tg)
       IN  IF rows = {}
           THEN obj' = [obj EXCEPT ![p] = NewUser(arg[p].tg, NoId, arg[p].lang)]
           ELSE \E r \in rows :
                   obj' = [obj EXCEPT ![p] =
                              [Dirty(r, "language") EXCEPT !.language = arg[p].lang]]
    /\ Ran(p, NoRet, "commit")
    /\ UNCHANGED <<del, ins, lock, during, clash>>

\* ---------------------------------------------------------------- commit
\* mutant: the UPDATE of a dirty object writes every column of the object, the
\* ones that were never assigned at their defaults
FlushWritesAllColumns(t, o) ==
    CASE o.kind = "new" ->
           t \cup {TelegramUser(NthFree(1, {r.id : r \in t}, 1), o.tg, o.instagram_id,
                                o.is_notified, o.language)}
      [] o.kind = "dirty" ->
           {IF r.id # o.id THEN r
            ELSE TelegramUser(r.id, r.telegram_id, o.instagram_id, o.is_notified,
                              o.language) : r \in t}
      [] OTHER -> t

\* mutant: a row whose language is set to None is deleted
FlushDropsCleared(t, o) ==
    CASE o.kind = "new" ->
           t \cup {TelegramUser(NthFree(1, {r.id : r \in t}, 1), o.tg, o.instagram_id,
                                o.is_notified, o.language)}
      [] o.kind = "dirty" /\ o.col = "language" /\ o.language = NoLang ->
           {r \in t : r.id # o.id}
      [] o.kind = "dirty" ->
           {IF r.id # o.id THEN r
            ELSE CASE o.col = "instagram_id" -> [r EXCEPT !.instagram_id = o.instagram_id]
                   [] o.col = "is_notified" -> [r EXCEPT !.is_notified = o.is_notified]
                   [] OTHER -> [r EXCEPT !.language = o.language] : r \in t}
      [] OTHER -> t

\* mutant: the UPDATE of a dirty object has no WHERE clause
FlushUpdatesEveryRow(t, o) ==
    CASE o.kind = "new" ->
           t \cup {TelegramUser(NthFree(1, {r.id : r \in t}, 1), o.tg, o.instagram_id,
                                o.is_notified, o.language)}
      [] o.kind = "dirty" ->
           {CASE o.col = "instagram_id" -> [r EXCEPT !.instagram_id = o.instagram_id]
              [] o.col = "is_notified" -> [r EXCEPT !.is_notified = o.is_notified]
              [] OTHER -> [r EXCEPT !.language = o.language] : r \in t}
      [] OTHER -> t

\* the flush of session.commit(): INSERT of a new object (is_notified defaults to
\* False, the key is the next free one), UPDATE ... WHERE id = pk of the assigned
\* attribute of a dirty one
Flush(t, o) ==
    CASE o.kind = "new" ->
           t \cup {TelegramUser(NthFree(1, {r.id : r \in t}, 1), o.tg, o.instagram_id,
                                o.is_notified, o.language)}
      [] o.kind = "dirty" ->
           {IF r.id # o.id THEN r
            ELSE CASE o.col = "instagram_id" -> [r EXCEPT !.instagram_id = o.instagram_id]
                   [] o.col = "is_notified" -> [r EXCEPT !.is_notified = o.is_notified]
                   [] OTHER -> [r EXCEPT !.language = o.language] : r \in t}
      [] OTHER -> t

\* mutant: the commit loses the DELETE
AppliedWithoutDelete(t, d, i) == t \cup i

\* the unfollowers table once the DELETE and the INSERTs of a transaction commit
Applied(t, d, i) == (t \ d) \cup i

\* the session has something to write at commit
Writes(p) == del[p] # {} \/ ins[p] # {} \/ obj[p].kind # "none"

\* mutant: the commit writes table unfollowers back as the call found it, with its
\* own DELETE and INSERTs applied
CommitWritesSnapshot(p) ==
    /\ pc[p] = "commit"
    /\ (dialect = "sqlite" /\ (Writes(p) \/ lock = p)) => lock \in {0, p}
    /\ unfollowers' = IF op[p] = "update_known_unfollowers"
                      THEN Applied(pre[p].u, del[p], ins[p])
                      ELSE unfollowers
    /\ telegram_users' = Flush(telegram_users, obj[p])
    /\ lock' = IF lock = p THEN 0 ELSE lock
    /\ del' = [del EXCEPT ![p] = {}]
    /\ ins' = [ins EXCEPT ![p] = {}]
    /\ obj' = [obj EXCEPT ![p] = NoObj]
    /\ ret' = [ret EXCEPT ![p].status = "ok"]
    /\ pc' = [pc EXCEPT ![p] = "close"]
    /\ lastS' = IF op[p] = "update_known_unfollowers"
                THEN [lastS EXCEPT ![arg[p].tg][arg[p].ig] = arg[p].ids]
                ELSE lastS
    /\ lastToggle' = IF op[p] \in {"start_notifying", "stop_notifying"} /\ ret[p].bool
                     THEN [lastToggle EXCEPT ![arg[p].tg] = op[p]]
                     ELSE lastToggle
    /\ dirtied' = [q \in Procs |->
                     IF q # p /\ tables' # tables THEN TRUE ELSE dirtied[q]]
    /\ UNCHANGED <<engine, self, sess, op, arg, hist>>

\* session.commit() succeeds: flush, then the transaction's writes become visible
\* at once. Under sqlite the flush needs the write lock.
Commit(p) ==
    /\ pc[p] = "commit"
    /\ (dialect = "sqlite" /\ (Writes(p) \/ lock = p)) => lock \in {0, p}
    /\ unfollowers' = Applied(unfollowers, del[p], ins[p])
    /\ telegram_users' = Flush(telegram_users, obj[p])
    /\ lock' = IF lock = p THEN 0 ELSE lock
    /\ del' = [del EXCEPT ![p] = {}]
    /\ ins' = [ins EXCEPT ![p] = {}]
    /\ obj' = [obj EXCEPT ![p] = NoObj]
    /\ ret' = [ret EXCEPT ![p].status = "ok"]
    /\ pc' = [pc EXCEPT ![p] = "close"]
    /\ lastS' = IF op[p] = "update_known_unfollowers"
                THEN [lastS EXCEPT ![arg[p].tg][arg[p].ig] = arg[p].ids]
                ELSE lastS
    /\ lastToggle' = IF op[p] \in {"start_notifying", "stop_notifying"} /\ ret[p].bool
                     THEN [lastToggle EXCEPT ![arg[p].tg] = op[p]]
                     ELSE lastToggle
    /\ dirtied' = [q \in Procs |->
                     IF q # p /\ tables' # tables THEN TRUE ELSE dirtied[q]]
    /\ UNCHANGED <<engine, self, sess, op, arg, hist>>

\* a statement of the body, or the commit, raises (the engine is unavailable, the
\* database is locked): control passes to `except Exception`
Fail(p) ==
    /\ pc[p] \in {"body", "insert", "commit"}
    /\ pc' = [pc EXCEPT ![p] = "rollback"]
    /\ UNCHANGED <<engine, self, tables, txn, sess, op, arg, ret, hist, ghosts>>

\* mutant: no rollback, the DELETE already emitted stays
RollbackKeepsDelete(p) ==
    /\ pc[p] = "rollback"
    /\ unfollowers' = unfollowers \ del[p]
    /\ del' = [del EXCEPT ![p] = {}]
    /\ ins' = [ins EXCEPT ![p] = {}]
    /\ obj' = [obj EXCEPT ![p] = NoObj]
    /\ lock' = IF lock = p THEN 0 ELSE lock
    /\ ret' = [ret EXCEPT ![p] = [NoRet EXCEPT !.status = "raise"]]
    /\ pc' = [pc EXCEPT ![p] = "close"]
    /\ UNCHANGED <<engine, self, telegram_users, sess, op, arg, hist, ghosts>>

\* except Exception: session.rollback(); raise e
Rollback(p) ==
    /\ pc[p] = "rollback"
    /\ del' = [del EXCEPT ![p] = {}]
    /\ ins' = [ins EXCEPT ![p] = {}]
    /\ obj' = [obj EXCEPT ![p] = NoObj]
    /\ lock' = IF lock = p THEN 0 ELSE lock
    /\ ret' = [ret EXCEPT ![p] = [NoRet EXCEPT !.status = "raise"]]
    /\ pc' = [pc EXCEPT ![p] = "close"]
    /\ UNCHANGED <<engine, self, tables, sess, op, arg, hist, ghosts>>

\* mutant: session.close() follows the commit, not in a finally block
CloseAfterCommitOnly(p) ==
    /\ pc[p] = "close"
    /\ sess' = IF ret[p].status = "ok" THEN sess \ {p} ELSE sess
    /\ pc' = [pc EXCEPT ![p] = "done"]
    /\ UNCHANGED <<engine, self, tables, txn, op, arg, ret, hist, ghosts>>

\* finally: session.close(); the call returns or raises to its caller
Close(p) ==
    /\ pc[p] = "close"
    /\ sess' = sess \ {p}
    /\ pc' = [pc EXCEPT ![p] = "done"]
    /\ UNCHANGED <<engine, self, tables, txn, op, arg, ret, hist, ghosts>>

\* ---------------------------------------------------------------- specifications
\* the end of every call: commit or exception, rollback, close
Finish(p) ==
    \/ Commit(p)
    \/ Fail(p)
    \/ Rollback(p)
    \/ Close(p)

UnfollowerStep(p) ==
    \/ GetKnownUnfollowers(p)
    \/ DeleteKnown(p)
    \/ BulkSave(p)

UserStep(p) ==
    \/ GetInstagramId(p)
    \/ UpdateInstagramId(p)
    \/ StartNotifying(p)
    \/ StopNotifying(p)
    \/ GetNotifiedTelegramIds(p)
    \/ GetLanguage(p)
    \/ SetLanguage(p)

\* one caller: every call runs to completion before the next starts
Caller == CHOOSE p \in Procs : \A q \in Procs : p <= q
Next == Call(Caller) \/ UnfollowerStep(Caller) \/ UserStep(Caller) \/ Finish(Caller)
Spec == Init /\ [][Next]_vars

\* several callers of the operations on table unfollowers: the statements of
\* their calls interleave
CallUnfollowers(p) == CallOf(p, UnfollowerOps)
NextUnfollowers == \E p \in Procs : CallUnfollowers(p) \/ UnfollowerStep(p) \/ Finish(p)
SpecUnfollowers == Init /\ [][NextUnfollowers]_vars

\* several callers of the operations on table telegram_users
CallUsers(p) == CallOf(p, UserOps)
NextUsers == \E p \in Procs : CallUsers(p) \/ UserStep(p) \/ Finish(p)
SpecUsers == Init /\ [][NextUsers]_vars

\* several stores: one caller makes its calls, one at a time, on any of the stores
\* constructed so far, and further stores are constructed between the calls
CallStores(p) == \E s \in Stores : CallVia(p, Ops, s)
NextStores ==
    \/ \E s \in Stores : \E x \in Urls : Construct(s, x)
    \/ CallStores(Caller)
    \/ UnfollowerStep(Caller)
    \/ UserStep(Caller)
    \/ Finish(Caller)
SpecStores == Init /\ [][NextStores]_vars

\* ================================================================ claims
\* what get_known_unfollowers(u) returns before, and after, the call of
\* update_known_unfollowers(u, a, S) that process q is making or has made last
Before(q) == KnownIds(pre[q].u, arg[q].tg)
After(q) ==
    {r.instagram_unfollower_id :
        r \in ByTelegram(pre[q].u, arg[q].tg) \ ByPair(pre[q].u, arg[q].tg, arg[q].ig)}
    \cup arg[q].ids

\* process p runs the query of get_known_unfollowers(u) in this step, and q has
\* called update_known_unfollowers(u, a, S) with no other write committed since
ReadsBeside(p, q) ==
    /\ p # q
    /\ pc[p] = "body" /\ op[p] = "get_known_unfollowers" /\ pc'[p] = "commit"
    /\ op[q] = "update_known_unfollowers" /\ pc[q] # "idle"
    /\ arg[q].tg = arg[p].tg
    /\ ~dirtied[q]

\* C1: a get_known_unfollowers(u) that runs beside one update_known_unfollowers(u, a, S)
\* returns the set as it was before the replace or as it is after it, never the
\* set with the old rows of (u, a) gone and the new ones missing.
C1_ReadSeesWholeReplace ==
    [][\A p, q \in Procs :
          ReadsBeside(p, q) => ret'[p].set \in {Before(q), After(q)}]_vars

\* a reader has read the old set while the replace had deleted and inserted but
\* not committed, and the new set differs from it
C1_Witness ==
    \E p, q \in Procs :
        /\ op[p] = "get_known_unfollowers" /\ pc[p] = "commit" /\ q \in during[p]
        /\ op[q] = "update_known_unfollowers" /\ pc[q] = "commit"
        /\ arg[q].tg = arg[p].tg /\ ~dirtied[q]
        /\ del[q] # {} /\ ins[q] # {}
        /\ ret[p].set = Before(q) /\ Before(q) # After(q)

\* the operations that create the TelegramUser row when there is none
FirstWrites == {"update_instagram_id", "set_language"}

\* process p has returned from its call without an exception
Returned(p) == pc[p] = "done" /\ ret[p].status = "ok"

\* C2: with the calls made one at a time, table telegram_users never holds two
\* rows with the same telegram_id.
C2_OneRowPerUser ==
    \A u \in Users : Cardinality(UserRows(telegram_users, u)) <= 1

\* a first-write operation has returned for a user that already had a row, and
\* the user still has exactly one
C2_Witness ==
    /\ Returned(Caller) /\ op[Caller] \in FirstWrites
    /\ UserRows(pre[Caller].t, arg[Caller].tg) # {}
    /\ Cardinality(UserRows(telegram_users, arg[Caller].tg)) = 1

\* C3: two concurrent first writes for a telegram_id that has no row, both
\* returned, leave at most one row for it.
C3_ConcurrentFirstWrites ==
    \A p, q \in Procs :
        ( /\ p # q
          /\ Returned(p) /\ op[p] \in FirstWrites
          /\ Returned(q) /\ op[q] \in FirstWrites
          /\ arg[p].tg = arg[q].tg
          /\ UserRows(pre[p].t, arg[p].tg) = {}
          /\ UserRows(pre[q].t, arg[q].tg) = {} )
        => Cardinality(UserRows(telegram_users, arg[p].tg)) <= 1

\* the caller has returned from update_known_unfollowers(u, a, S)
Replaced == Returned(Caller) /\ op[Caller] = "update_known_unfollowers"

\* the rows of table t with the given three columns
Same(t, tg, ig, x) == {r \in ByPair(t, tg, ig) : r.instagram_unfollower_id = x}

\* the rows of a table without their primary keys: how many rows hold each triple
Content(t) ==
    [k \in Users \X Accounts \X Ids |-> Cardinality(Same(t, k[1], k[2], k[3]))]

\* C4: after update_known_unfollowers(u, a, S) has returned, the rows of (u, a)
\* are one row per id of S and no other, whatever rows the pair had before.
C4_ReplacesThePair ==
    Replaced =>
        LET a == arg[Caller]
        IN  /\ {r.instagram_unfollower_id : r \in ByPair(unfollowers, a.tg, a.ig)} = a.ids
            /\ \A x \in a.ids : Cardinality(Same(unfollowers, a.tg, a.ig, x)) = 1

\* the pair held an id that is not in S, and S is not empty
C4_Witness ==
    /\ Replaced
    /\ arg[Caller].ids # {}
    /\ \E r \in ByPair(pre[Caller].u, arg[Caller].tg, arg[Caller].ig) :
          r.instagram_unfollower_id \notin arg[Caller].ids

\* C5: update_known_unfollowers(u, a, S) called again right after it returned
\* leaves the rows of both tables (up to their keys) and the result of
\* get_known_unfollowers(u) as the first call left them, no triple twice.
C5_ReplaceIsIdempotent ==
    (Replaced /\ again[Caller]) =>
        /\ Content(unfollowers) = Content(pre[Caller].u)
        /\ telegram_users = pre[Caller].t
        /\ KnownIds(unfollowers, arg[Caller].tg) = KnownIds(pre[Caller].u, arg[Caller].tg)
        /\ \A x \in Ids :
              Cardinality(Same(unfollowers, arg[Caller].tg, arg[Caller].ig, x)) <= 1

\* the second of two equal calls has returned, with a set that is not empty
C5_Witness == Replaced /\ again[Caller] /\ arg[Caller].ids # {}

\* the ids get_known_unfollowers(tg) finds in table t under accounts other than ig
OtherIds(t, tg, ig) ==
    {r.instagram_unfollower_id : r \in ByTelegram(t, tg) \ ByPair(t, tg, ig)}

\* C6: update_known_unfollowers(u, a, S) leaves the rows of every other pair and
\* table telegram_users as they were; with S empty, get_known_unfollowers(u) is
\* left with the ids of the other pairs of u.
C6_ReplaceTouchesOnlyThePair ==
    Replaced =>
        LET a == arg[Caller]
        IN  /\ unfollowers \ ByPair(unfollowers, a.tg, a.ig)
                 = pre[Caller].u \ ByPair(pre[Caller].u, a.tg, a.ig)
            /\ telegram_users = pre[Caller].t
            /\ a.ids = {} =>
                  KnownIds(unfollowers, a.tg) = OtherIds(pre[Caller].u, a.tg, a.ig)

\* the pair is emptied while another pair of the same user holds rows
C6_Witness ==
    /\ Replaced
    /\ arg[Caller].ids = {}
    /\ ByPair(pre[Caller].u, arg[Caller].tg, arg[Caller].ig) # {}
    /\ OtherIds(pre[Caller].u, arg[Caller].tg, arg[Caller].ig) # {}
    /\ KnownIds(unfollowers, arg[Caller].tg) # {}

\* the union of the sets last passed for the accounts of user u
LastKnown(u) == UNION {lastS[u][a] : a \in Accounts}

\* C7: what get_known_unfollowers(u) finds, and returns, is the union over the
\* accounts a of the set S of the last update_known_unfollowers(u, a, S) that
\* returned; for a user with no rows it is the empty set.
C7_KnownIsUnionOfLastSets ==
    /\ \A u \in Users : KnownIds(unfollowers, u) = LastKnown(u)
    /\ (Returned(Caller) /\ op[Caller] = "get_known_unfollowers")
          => ret[Caller].set = LastKnown(arg[Caller].tg)

\* get_known_unfollowers has returned the ids of two accounts of the user
C7_Witness ==
    /\ Returned(Caller) /\ op[Caller] = "get_known_unfollowers"
    /\ \E a, b \in Accounts :
          /\ a # b
          /\ lastS[arg[Caller].tg][a] # {}
          /\ lastS[arg[Caller].tg][b] # {}
          /\ lastS[arg[Caller].tg][a] # lastS[arg[Caller].tg][b]
    /\ ret[Caller].set = Ids

\* the call of the caller is inside its transaction: nothing of it is committed
InTransaction(p) == pc[p] \in {"body", "insert", "commit", "rollback"}

\* C8: a call that failed at any statement, or at the commit, raises to its
\* caller and leaves both tables as they were when it started; before the commit
\* nothing of a call is in the tables, so no part of its writes is ever committed
\* alone.
C8_FailureRollsBack ==
    /\ []((InTransaction(Caller) \/ ret[Caller].status = "raise")
            => (unfollowers = pre[Caller].u /\ telegram_users = pre[Caller].t))
    /\ [][pc[Caller] = "rollback"
            => (pc'[Caller] = "close" /\ ret'[Caller].status = "raise")]_vars
    /\ [](pc[Caller] = "done" => ret[Caller].status \in {"ok", "raise"})

\* update_known_unfollowers failed after its DELETE had removed rows, the insert
\* not done, and the rows are still in the table
C8_Witness ==
    /\ pc[Caller] = "rollback" /\ op[Caller] = "update_known_unfollowers"
    /\ del[Caller] # {} /\ ins[Caller] = {} /\ arg[Caller].ids # {}
    /\ del[Caller] \subseteq unfollowers

\* the caller has returned from start_notifying or stop_notifying
Toggled == Returned(Caller) /\ op[Caller] \in {"start_notifying", "stop_notifying"}

\* C9: start_notifying(u) and stop_notifying(u) return False and change nothing
\* when u has no row; when u has a row they return True and its is_notified is
\* True after start_notifying, False after stop_notifying.
C9_ToggleNeedsRow ==
    Toggled =>
        IF UserRows(pre[Caller].t, arg[Caller].tg) = {}
        THEN /\ ret[Caller].bool = FALSE
             /\ telegram_users = pre[Caller].t
             /\ unfollowers = pre[Caller].u
        ELSE /\ ret[Caller].bool = TRUE
             /\ UserRows(telegram_users, arg[Caller].tg) # {}
             /\ \A r \in UserRows(telegram_users, arg[Caller].tg) :
                   r.is_notified = (op[Caller] = "start_notifying")

\* a toggle has returned False for a user with no row while another user has one
C9_Witness ==
    /\ Toggled
    /\ UserRows(pre[Caller].t, arg[Caller].tg) = {}
    /\ telegram_users # {}
    /\ ret[Caller].bool = FALSE

\* C10: get_notified_telegram_ids finds, and returns, exactly the users whose last
\* toggle that returned True was start_notifying: not a user whose row was only
\* created, nor one whose last such toggle was stop_notifying.
C10_NotifiedIsLastToggle ==
    /\ Notified(telegram_users) = {u \in Users : lastToggle[u] = "start_notifying"}
    /\ (Returned(Caller) /\ op[Caller] = "get_notified_telegram_ids")
          => ret[Caller].set = {u \in Users : lastToggle[u] = "start_notifying"}

\* one user is notified after start_notifying, another has a row and never toggled
C10_Witness ==
    \E u, v \in Users :
        /\ lastToggle[u] = "start_notifying" /\ u \in Notified(telegram_users)
        /\ lastToggle[v] = "none" /\ UserRows(telegram_users, v) # {}
        /\ v \notin Notified(telegram_users)

\* a user with a row was notified and stop_notifying has returned True for it
C10_StoppedWitness ==
    \E u \in Users :
        /\ lastToggle[u] = "stop_notifying" /\ UserRows(telegram_users, u) # {}
        /\ u \notin Notified(telegram_users)

\* table t with column c of the rows of telegram_id tg set to the value held by
\* row v, every other column and row as it is
WithColumn(t, tg, c, v) ==
    {IF r.telegram_id # tg THEN r
     ELSE CASE c = "instagram_id" -> [r EXCEPT !.instagram_id = v.instagram_id]
            [] c = "is_notified" -> [r EXCEPT !.is_notified = v.is_notified]
            [] OTHER -> [r EXCEPT !.language = v.language] : r \in t}

\* table t2 is table t1 with one more row, whose columns but the key are those of v
AddsRow(t1, t2, v) ==
    /\ t1 \subseteq t2
    /\ Cardinality(t2 \ t1) = 1
    /\ \A r \in t2 \ t1 : [r EXCEPT !.id = 0] = v

\* what get_instagram_id(tg) and get_language(tg) may return on table t
LinkedIn(t, tg) ==
    IF UserRows(t, tg) = {} THEN {NoId} ELSE {r.instagram_id : r \in UserRows(t, tg)}
LanguageIn(t, tg) ==
    IF UserRows(t, tg) = {} THEN {NoLang} ELSE {r.language : r \in UserRows(t, tg)}

\* C11: update_instagram_id(u, id) on a user with no row adds a row with
\* instagram_id = id, is_notified False and language None; on a user with a row
\* it changes instagram_id of that row and nothing else. get_instagram_id(u) then
\* returns id.
C11_SetLinkedAccount ==
    /\ (Returned(Caller) /\ op[Caller] = "update_instagram_id") =>
          LET a == arg[Caller]
          IN  /\ IF UserRows(pre[Caller].t, a.tg) = {}
                 THEN AddsRow(pre[Caller].t, telegram_users,
                              TelegramUser(0, a.tg, a.ig, FALSE, NoLang))
                 ELSE telegram_users =
                         WithColumn(pre[Caller].t, a.tg, "instagram_id",
                                    TelegramUser(0, a.tg, a.ig, FALSE, NoLang))
              /\ LinkedIn(telegram_users, a.tg) = {a.ig}
    /\ (Returned(Caller) /\ op[Caller] = "get_instagram_id") =>
          LinkedIn(telegram_users, arg[Caller].tg) = {ret[Caller].int}

\* the account of a user whose row holds a language is changed
C11_Witness ==
    /\ Returned(Caller) /\ op[Caller] = "update_instagram_id"
    /\ \E r \in UserRows(pre[Caller].t, arg[Caller].tg) :
          r.language # NoLang /\ r.instagram_id # arg[Caller].ig
    /\ \E r \in UserRows(telegram_users, arg[Caller].tg) :
          r.language # NoLang /\ r.instagram_id = arg[Caller].ig

\* C12: set_language(u, L) is followed by get_language(u) returning L; on a user
\* with no row it adds a row with instagram_id None and is_notified False; on a
\* user with a row it changes language of that row and nothing else, and the row
\* stays when L is None.
C12_SetLanguage ==
    /\ (Returned(Caller) /\ op[Caller] = "set_language") =>
          LET a == arg[Caller]
          IN  /\ IF UserRows(pre[Caller].t, a.tg) = {}
                 THEN /\ AddsRow(pre[Caller].t, telegram_users,
                                 TelegramUser(0, a.tg, NoId, FALSE, a.lang))
                      /\ LinkedIn(telegram_users, a.tg) = {NoId}
                 ELSE telegram_users =
                         WithColumn(pre[Caller].t, a.tg, "language",
                                    TelegramUser(0, a.tg, NoId, FALSE, a.lang))
              /\ UserRows(telegram_users, a.tg) # {}
              /\ LanguageIn(telegram_users, a.tg) = {a.lang}
    /\ (Returned(Caller) /\ op[Caller] = "get_language") =>
          LanguageIn(telegram_users, arg[Caller].tg) = {ret[Caller].str}

\* the language of a row that held one, and an account, is set to None
C12_Witness ==
    /\ Returned(Caller) /\ op[Caller] = "set_language" /\ arg[Caller].lang = NoLang
    /\ \E r \in UserRows(pre[Caller].t, arg[Caller].tg) :
          r.language # NoLang /\ r.instagram_id # NoId
    /\ \E r \in UserRows(telegram_users, arg[Caller].tg) :
          r.language = NoLang /\ r.instagram_id # NoId

\* the four operations that only read
ReadOps == {"get_known_unfollowers", "get_instagram_id", "get_language",
            "get_notified_telegram_ids"}

\* C13: the four read operations leave both tables as they are, at every step
\* and for every argument; for a telegram_id with no rows they return the empty
\* set or None.
C13_ReadsChangeNothing ==
    op[Caller] \in ReadOps =>
        /\ unfollowers = pre[Caller].u
        /\ telegram_users = pre[Caller].t
        /\ Returned(Caller) =>
              /\ (op[Caller] = "get_known_unfollowers"
                    /\ ByTelegram(unfollowers, arg[Caller].tg) = {})
                    => ret[Caller].set = {}
              /\ (op[Caller] \in {"get_instagram_id", "get_language"}
                    /\ UserRows(telegram_users, arg[Caller].tg) = {})
                    => (ret[Caller].int = NoId /\ ret[Caller].str = NoLang)
              /\ (op[Caller] = "get_notified_telegram_ids"
                    /\ telegram_users = {})
                    => ret[Caller].set = {}

\* get_instagram_id has returned None for a user with no row, another user has one
C13_Witness ==
    /\ Returned(Caller) /\ op[Caller] = "get_instagram_id"
    /\ UserRows(telegram_users, arg[Caller].tg) = {}
    /\ telegram_users # {}
    /\ ret[Caller].int = NoId

\* C16: no step removes the last row of a telegram_id from telegram_users: a user
\* who has a row keeps one, whatever is called afterwards.
C16_UserRowsStay ==
    [][\A u \in Users :
          UserRows(telegram_users, u) # {} => UserRows(telegram_users', u) # {}]_vars

\* a user with a row and known unfollowers had the set of a pair replaced by the
\* empty set
C16_Witness ==
    /\ Returned(Caller) /\ op[Caller] = "update_known_unfollowers"
    /\ arg[Caller].ids = {}
    /\ ByPair(pre[Caller].u, arg[Caller].tg, arg[Caller].ig) # {}
    /\ UserRows(pre[Caller].t, arg[Caller].tg) # {}
    /\ UserRows(telegram_users, arg[Caller].tg) # {}

\* the language of a user with a row was set to None
C16_ClearedWitness ==
    /\ Returned(Caller) /\ op[Caller] = "set_language" /\ arg[Caller].lang = NoLang
    /\ UserRows(pre[Caller].t, arg[Caller].tg) # {}
    /\ UserRows(telegram_users, arg[Caller].tg) # {}

\* C18: a call that has returned or raised has closed its session: the session
\* of a process is open only while the process is inside session_scope.
C18_SessionClosed ==
    \A p \in Procs :
        /\ pc[p] \in {"idle", "done"} => p \notin sess
        /\ pc[p] \in {"body", "insert", "commit", "rollback", "close"} => p \in sess

\* start_notifying returned False from inside the scope, the session is closed
C18_Witness ==
    /\ pc[Caller] = "done" /\ op[Caller] = "start_notifying"
    /\ ret[Caller].status = "ok" /\ ~ret[Caller].bool
    /\ Caller \notin sess

\* a call raised after its rollback, the session is closed
C18_RaisedWitness ==
    /\ pc[Caller] = "done" /\ ret[Caller].status = "raise"
    /\ Caller \notin sess

\* C19: start_notifying(u) and stop_notifying(u) change is_notified of the row of
\* u and nothing else in either table; no operation on telegram_users changes
\* table unfollowers.
C19_TogglesChangeOneColumn ==
    /\ (Returned(Caller) /\ Toggled) =>
          telegram_users =
             WithColumn(pre[Caller].t, arg[Caller].tg, "is_notified",
                        TelegramUser(0, arg[Caller].tg, NoId,
                                     op[Caller] = "start_notifying", NoLang))
    /\ op[Caller] \in UserOps => unfollowers = pre[Caller].u

\* notifications were enabled for a user whose row holds an account, another user
\* has a row
C19_Witness ==
    /\ Returned(Caller) /\ op[Caller] = "start_notifying" /\ ret[Caller].bool
    /\ \E r \in UserRows(pre[Caller].t, arg[Caller].tg) :
          r.instagram_id # NoId /\ ~r.is_notified
    /\ \E r \in UserRows(telegram_users, arg[Caller].tg) :
          r.instagram_id # NoId /\ r.is_notified
    /\ \E r \in telegram_users : r.telegram_id # arg[Caller].tg /\ ~r.is_notified

\* process p waits for the write lock of the database file, held by another
Waits(p) ==
    /\ dialect = "sqlite" /\ lock \notin {0, p}
    /\ \/ pc[p] = "body" /\ op[p] = "update_known_unfollowers"
       \/ pc[p] = "commit" /\ Writes(p)

\* the rows of pair (u, a) are one row per id of S and no other
HoldsExactly(u, a, S) ==
    /\ {r.instagram_unfollower_id : r \in ByPair(unfollowers, u, a)} = S
    /\ \A x \in S : Cardinality(Same(unfollowers, u, a, x)) = 1

\* processes p and q have both returned from update_known_unfollowers
BothReplaced(p, q) ==
    /\ p # q
    /\ Returned(p) /\ op[p] = "update_known_unfollowers"
    /\ Returned(q) /\ op[q] = "update_known_unfollowers"

\* C14: calls of update_known_unfollowers on different pairs do not disturb each
\* other, however their statements interleave: a pair that no two transactions
\* replaced at the same time holds exactly the set of the last call that
\* returned for it, as after the calls made one after the other; and a call that
\* waits for the write lock waits for a transaction that can go on, so no
\* interleaving keeps either call from returning.
C14_DifferentPairsIndependent ==
    /\ \A u \in Users : \A a \in Accounts :
          <<u, a>> \notin clash => HoldsExactly(u, a, lastS[u][a])
    /\ \A p \in Procs :
          Waits(p) => (pc[lock] \in {"insert", "commit", "rollback"} /\ ~Waits(lock))

\* two calls on different pairs, each with a set that is not empty, overlapped
\* (each started on the table the other started on) and both have returned
C14_Witness ==
    \E p, q \in Procs :
        /\ BothReplaced(p, q)
        /\ <<arg[p].tg, arg[p].ig>> # <<arg[q].tg, arg[q].ig>>
        /\ arg[p].ids # {} /\ arg[q].ids # {}
        /\ pre[p].u = pre[q].u
        /\ HoldsExactly(arg[p].tg, arg[p].ig, arg[p].ids)
        /\ HoldsExactly(arg[q].tg, arg[q].ig, arg[q].ids)

\* C15: two calls of update_known_unfollowers on the same pair, both returned,
\* leave the pair with exactly the set of one of them.
C15_SamePairNeverMixed ==
    \A p, q \in Procs :
        (BothReplaced(p, q) /\ arg[p].tg = arg[q].tg /\ arg[p].ig = arg[q].ig)
        => \/ HoldsExactly(arg[p].tg, arg[p].ig, arg[p].ids)
           \/ HoldsExactly(arg[q].tg, arg[q].ig, arg[q].ids)

\* the same under the database file lock of sqlite, where the second DELETE
\* waits for the commit of the first
C15_UnderSqlite == dialect = "sqlite" => C15_SamePairNeverMixed

\* the tables of the database at db_url x
TablesAt(x) == IF x = bind THEN [u |-> unfollowers, t |-> telegram_users] ELSE db[x]

\* C17: the session of every call runs on the database at the db_url its store
\* was constructed with, and a call that has returned changed no other database,
\* also after another store was constructed with another db_url.
C17_StoreUsesOwnUrl ==
    \A p \in Procs :
        /\ p \in sess => bind = db_url[self[p]]
        /\ Returned(p) =>
              \A x \in Urls \ {db_url[self[p]]} :
                  x = bind => (unfollowers = pre[p].u /\ telegram_users = pre[p].t)

====
